---- MODULE Spec2Model ----
(* Model of the page store of src/src/components/NotionClone.tsx: the React   *)
(* state of the NotionClone component (pages, currentPageId, the isLoading    *)
(* ref), the localStorage slot it mirrors the collection to, the clock its    *)
(* ids are derived from, and one action per event handler. An action is the   *)
(* whole handler followed by the re-render it schedules and the effects that  *)
(* re-render runs (the save effect of lines 112-114). The load effect and the  *)
(* re-render that puts the state it set in place are two steps, with the      *)
(* state updates the effect queued held in pending between them.              *)
EXTENDS Integers, Sequences, FiniteSets, TLC

VARIABLES pages, currentPageId, storage, isLoading, now, phase, reported, last,
          pending

vars == <<pages, currentPageId, storage, isLoading, now, phase, reported, last,
          pending>>

\* ---------------------------------------------------------------- bounds
MaxPages == 3
MaxClock == 2
MaxStored == 2

\* ---------------------------------------------------------------- values
\* currentPageId === null (line 65)
Null == "<null>"
\* a field that is absent from a persisted record (undefined after JSON.parse)
Absent == "<absent>"

DefaultTitle == "Getting Started"
Untitled == "Untitled"

\* Opaque blocks of the editing surface and the contents it can report.
Contents == { <<>>, <<"b">> }
\* What the user can type into the title input.
TitleInputs == { "", "Notes" }

\* Date.now().toString() (lines 91, 167)
DateNowToString(t) == ToString(t)

\* ------------------------------------------------------ the storage slot
\* The slot is modelled by what localStorage.getItem and JSON.parse make of
\* it: kind "missing" (getItem returns null), "empty" (the empty string),
\* "corrupt" (JSON.parse throws), "nonarray" (parses to a non-array value),
\* "array" (parses to the array val).
Slot(kind, val) == [kind |-> kind, val |-> val]

\* A parsed array element: null, or an object whose fields may be absent.
NullElem == [kind |-> "null", id |-> Absent, title |-> Absent,
             content |-> [kind |-> "absent", items |-> <<>>]]
Obj(id, title, ckind, items) ==
    [kind |-> "object", id |-> id, title |-> title,
     content |-> [kind |-> ckind, items |-> items]]

\* The persisted elements the slot may hold before the program starts.
StoredElems ==
    { Obj("1", "Notes", "array", <<"b">>),
      Obj(Absent, "", "absent", <<>>),
      Obj("", Absent, "other", <<>>),
      NullElem }

RECURSIVE SeqsUpTo(_, _)
SeqsUpTo(S, n) ==
    IF n = 0 THEN { <<>> }
    ELSE LET shorter == SeqsUpTo(S, n - 1)
         IN  shorter \cup { Append(s, e) : s \in { t \in shorter : Len(t) = n - 1 }, e \in S }

\* No two elements of the array carry the same non-empty id.
DistinctStoredIds(a) ==
    \A i, j \in 1..Len(a) :
        (i # j /\ a[i].id \notin {Absent, ""}) => a[i].id # a[j].id

\* What the slot may hold when the program starts: nothing, the empty
\* string, text that is no JSON, JSON that is no array, or an array of
\* elements, possibly empty. Arrays in which an id occurs twice are left to
\* the program to produce.
InitialSlots ==
    { Slot("missing", <<>>), Slot("empty", <<>>), Slot("corrupt", <<>>),
      Slot("nonarray", <<>>) }
    \cup { Slot("array", a) :
              a \in { b \in SeqsUpTo(StoredElems, MaxStored) : DistinctStoredIds(b) } }

\* JSON.stringify(pagesToSave) (line 78): an array of objects with the three
\* fields of a Page, content being an array.
JSONstringify(ps) ==
    Slot("array", [i \in 1..Len(ps) |->
                     Obj(ps[i].id, ps[i].title, "array", ps[i].content)])

\* ---------------------------------------------------------------- helpers
Page(id, title, content) == [id |-> id, title |-> title, content |-> content]

\* Array.prototype.filter
RECURSIVE FilterOut(_, _)
FilterOut(ps, id) ==
    IF ps = <<>> THEN <<>>
    ELSE IF Head(ps).id = id THEN FilterOut(Tail(ps), id)
         ELSE <<Head(ps)>> \o FilterOut(Tail(ps), id)

\* Array.prototype.findIndex as used by pages.find (lines 70, 236): the index
\* of the first page whose id is id, 0 when there is none.
FindIndex(ps, id) ==
    IF \E i \in 1..Len(ps) : ps[i].id = id
    THEN CHOOSE i \in 1..Len(ps) :
            ps[i].id = id /\ \A j \in 1..(i - 1) : ps[j].id # id
    ELSE 0

\* line 70: const currentPage = pages.find((page) => page.id === currentPageId)
HasCurrentPage(ps, cur) == FindIndex(ps, cur) # 0
CurrentPage(ps, cur) == ps[FindIndex(ps, cur)]

\* saveToLocalStorage with the length check of line 77 inverted.
saveToLocalStorage_Never(pagesToSave, slot) ==
    IF Len(pagesToSave) > 0 THEN slot ELSE JSONstringify(pagesToSave)

\* saveToLocalStorage without the length check of line 77.
saveToLocalStorage_Always(pagesToSave, slot) == JSONstringify(pagesToSave)

\* lines 76-80
saveToLocalStorage(pagesToSave, slot) ==
    IF Len(pagesToSave) > 0 THEN JSONstringify(pagesToSave) ELSE slot

\* The save effect left out.
SaveEffect_Skipped(ps, slot) == slot

\* lines 112-114: the effect that runs after a render in which pages changed.
SaveEffect(ps, slot) == saveToLocalStorage(ps, slot)

\* createNewPage ignoring its title argument.
createNewPage_IgnoresTitle(title, t) == Page(DateNowToString(t), Untitled, <<>>)

\* lines 165-171
createNewPage(title, t) ==
    Page(DateNowToString(t), IF title = "" THEN Untitled ELSE title, <<>>)

\* validatedPages with the test of line 93 inverted.
ValidatedPage_DropsContent(e, t) ==
    Page(IF e.id \in {Absent, ""} THEN DateNowToString(t) ELSE e.id,
         IF e.title \in {Absent, ""} THEN Untitled ELSE e.title,
         IF e.content.kind = "array" THEN <<>> ELSE e.content.items)

\* validatedPages without the title fallback of line 92.
ValidatedPage_NoTitleDefault(e, t) ==
    Page(IF e.id \in {Absent, ""} THEN DateNowToString(t) ELSE e.id,
         e.title,
         IF e.content.kind = "array" THEN e.content.items ELSE <<>>)

\* lines 90-94: one record of validatedPages
ValidatedPage(e, t) ==
    Page(IF e.id \in {Absent, ""} THEN DateNowToString(t) ELSE e.id,
         IF e.title \in {Absent, ""} THEN Untitled ELSE e.title,
         IF e.content.kind = "array" THEN e.content.items ELSE <<>>)

\* lines 84-108: the collection the load effect sets. The try block is left
\* by an exception when JSON.parse throws or when an element is null
\* (page.id of null); both end in the default page.
\* The map of line 90 is taken to run within one millisecond, so every
\* Date.now() of line 91 reads the same t.
LoadedPages(slot, t) ==
    IF /\ slot.kind = "array"
       /\ Len(slot.val) > 0
       /\ \A i \in 1..Len(slot.val) : slot.val[i].kind = "object"
    THEN [i \in 1..Len(slot.val) |-> ValidatedPage(slot.val[i], t)]
    ELSE << createNewPage(DefaultTitle, t) >>

\* updatePageTitle without the "Untitled" fallback of line 208.
updatePageTitle_NoFallback(ps, pageId, newTitle) ==
    IF pageId \in {Null, ""} THEN ps
    ELSE [i \in 1..Len(ps) |->
            IF ps[i].id = pageId THEN [ps[i] EXCEPT !.title = newTitle] ELSE ps[i]]

\* lines 203-211
updatePageTitle(ps, pageId, newTitle) ==
    IF pageId \in {Null, ""} THEN ps
    ELSE [i \in 1..Len(ps) |->
            IF ps[i].id = pageId
            THEN [ps[i] EXCEPT !.title = IF newTitle = "" THEN Untitled ELSE newTitle]
            ELSE ps[i]]

\* lines 121-127 and 238-243: prevPages.map(...) replacing the content of the
\* pages whose id is id.
SetContent(ps, id, c) ==
    [i \in 1..Len(ps) |->
        IF ps[i].id = id THEN [ps[i] EXCEPT !.content = c] ELSE ps[i]]

\* The ids a page can have in this model.
IdSet == ({ DateNowToString(t) : t \in 1..MaxClock }
          \cup { e.id : e \in StoredElems }) \ {Absent, ""}

NoReport == [has |-> FALSE, content |-> <<>>]
NoReports == [i \in IdSet |-> NoReport]

\* History of the last handler that ran: its name, its argument and the
\* state it started from; early records that the editing surface delivered a
\* change notification between the load effect and its re-render.
OpV(op, id, value) ==
    [op |-> op, id |-> id, value |-> value, prePages |-> pages,
     preCur |-> currentPageId, preStorage |-> storage, early |-> FALSE]
Op(op, id) == OpV(op, id, Absent)

\* handleEditorContentChange without the guard of line 119 and without the
\* comparison of line 123.
handleEditorContentChange_Unguarded(ps, cur, loading, updatedContent) ==
    [i \in 1..Len(ps) |-> [ps[i] EXCEPT !.content = updatedContent]]

\* handleEditorContentChange with the guard of line 119 inverted on the ref.
handleEditorContentChange_Dropped(ps, cur, loading, updatedContent) ==
    IF cur \in {Null, ""} \/ ~loading THEN ps
    ELSE [i \in 1..Len(ps) |->
            IF ps[i].id = cur THEN [ps[i] EXCEPT !.content = updatedContent]
            ELSE ps[i]]

\* lines 117-130
handleEditorContentChange(ps, cur, loading, updatedContent) ==
    IF cur \in {Null, ""} \/ loading THEN ps
    ELSE SetContent(ps, cur, updatedContent)

\* lines 214-218; e.target.value is the value of the controlled title input
handleTitleBlur(ps, cur, value) ==
    IF cur \in {Null, ""} THEN ps
    ELSE updatePageTitle(ps, cur, IF value = "" THEN Untitled ELSE value)

\* line 193 of deletePage
DeletedPages(ps, pageId) == FilterOut(ps, pageId)

\* deletePage reselecting from pages instead of updatedPages (line 198).
SelectionAfterDelete_FromOld(ps, cur, pageId) ==
    IF cur = pageId THEN ps[1].id ELSE cur

\* deletePage without the reselection of lines 197-199.
SelectionAfterDelete_Stale(ps, cur, pageId) == cur

\* lines 197-199 of deletePage
SelectionAfterDelete(ps, cur, pageId) ==
    IF cur = pageId
    THEN (IF Len(DeletedPages(ps, pageId)) > 0
          THEN DeletedPages(ps, pageId)[1].id ELSE Null)
    ELSE cur

\* lines 174-179 of addNewPage
AddedPages(ps, t) == Append(ps, createNewPage(Untitled, t))

\* lines 233-250 of handlePageSwitch: does the handler flush the outgoing page?
SwitchFlushes(cur, loading) == ~(cur \in {Null, ""}) /\ ~loading
\* lines 235-243
SwitchedPages(ps, cur) ==
    SetContent(ps, cur,
               IF HasCurrentPage(ps, cur) THEN CurrentPage(ps, cur).content ELSE <<>>)

\* lines 134-138
saveCurrentPage(ps, cur, loading, slot) ==
    IF ~(cur \in {Null, ""}) /\ ~loading THEN saveToLocalStorage(ps, slot) ELSE slot

\* The state updates queued by setPages and setCurrentPageId (lines 96-97,
\* 107-108) that the next render applies; none outside the load.
NoPending == [pages |-> <<>>, cur |-> Null]

\* The ref of line 73 created as useRef(true).
Init_LoadingSet ==
    /\ pages = <<>>
    /\ currentPageId = Null
    /\ storage \in InitialSlots
    /\ isLoading = TRUE
    /\ now = 1
    /\ phase = "mounted"
    /\ reported = NoReports
    /\ last = [op |-> "none", id |-> Null, value |-> Absent, prePages |-> <<>>,
               preCur |-> Null, preStorage |-> storage, early |-> FALSE]
    /\ pending = NoPending

\* ---------------------------------------------------------------- Init
\* The state after the first render, before its effects run (lines 64-73).
Init ==
    /\ pages = <<>>
    /\ currentPageId = Null
    /\ storage \in InitialSlots
    /\ isLoading = FALSE
    /\ now = 1
    /\ phase = "mounted"
    /\ reported = NoReports
    /\ last = [op |-> "none", id |-> Null, value |-> Absent, prePages |-> <<>>,
               preCur |-> Null, preStorage |-> storage, early |-> FALSE]
    /\ pending = NoPending

\* The clock advances between events.
Tick ==
    /\ now < MaxClock
    /\ now' = now + 1
    /\ UNCHANGED <<pages, currentPageId, storage, isLoading, phase, reported,
                   last, pending>>

\* The effects of the first render in their order: the load effect (lines
\* 83-109), which queues the loaded collection and selection, and the save
\* effect on the still empty collection (lines 112-114).
LoadEffect ==
    /\ phase = "mounted"
    /\ LET loaded == LoadedPages(storage, now)
       IN  pending' = [pages |-> loaded, cur |-> loaded[1].id]
    /\ storage' = SaveEffect(pages, storage)
    /\ phase' = "loading"
    /\ last' = Op("load", Null)
    /\ UNCHANGED <<pages, currentPageId, isLoading, now, reported>>

\* The handler of lines 117-130 as the first render made it (currentPageId
\* is null), called by the editing surface before the re-render of the load:
\* its functional update is applied to the collection the load queued.
EarlyEditorChange(updatedContent) ==
    /\ phase = "loading"
    /\ pending' = [pending EXCEPT !.pages =
                      handleEditorContentChange(pending.pages, currentPageId,
                                                isLoading, updatedContent)]
    /\ last' = [last EXCEPT !.early = TRUE]
    /\ UNCHANGED <<pages, currentPageId, storage, isLoading, now, phase,
                   reported>>

\* The re-render with the state the load queued, and its save effect
\* (lines 112-114).
LoadRender ==
    /\ phase = "loading"
    /\ pages' = pending.pages
    /\ currentPageId' = pending.cur
    /\ storage' = SaveEffect(pages', storage)
    /\ phase' = "ready"
    /\ pending' = NoPending
    /\ UNCHANGED <<isLoading, now, reported, last>>

\* lines 174-184, the re-render and the save effect.
AddNewPage ==
    /\ phase = "ready"
    /\ Len(pages) < MaxPages
    /\ pages' = AddedPages(pages, now)
    /\ currentPageId' = createNewPage(Untitled, now).id
    /\ storage' = SaveEffect(pages', storage)
    /\ last' = Op("create", currentPageId')
    /\ UNCHANGED <<isLoading, now, phase, reported, pending>>

\* lines 187-200, the re-render and the save effect. When the title input
\* has the focus, the blur of line 190 runs handleTitleBlur; the functional
\* update that handler queues is applied before, and replaced by,
\* setPages(updatedPages) of line 194, computed from the handler's own pages,
\* so the blur leaves no trace in the state the handler ends in.
DeletePage(pageId) ==
    /\ phase = "ready"
    /\ \E i \in 1..Len(pages) : pages[i].id = pageId
    /\ pages' = DeletedPages(pages, pageId)
    /\ storage' = SaveEffect(pages', saveToLocalStorage(pages', storage))
    /\ currentPageId' = SelectionAfterDelete(pages, currentPageId, pageId)
    /\ reported' = [reported EXCEPT ![pageId] = NoReport]
    /\ last' = Op("delete", pageId)
    /\ UNCHANGED <<isLoading, now, phase, pending>>

\* onChange of the title input (lines 350-352), which is rendered only while
\* there is a current page (line 327); re-render, save effect.
TitleChange(value) ==
    /\ phase = "ready"
    /\ HasCurrentPage(pages, currentPageId)
    /\ pages' = updatePageTitle(pages, CurrentPage(pages, currentPageId).id, value)
    /\ storage' = SaveEffect(pages', storage)
    /\ last' = OpV("title", CurrentPage(pages, currentPageId).id, value)
    /\ UNCHANGED <<currentPageId, isLoading, now, phase, reported, pending>>

\* onBlur of the title input (lines 214-218, reached also through Enter,
\* lines 221-226), re-render, save effect.
TitleBlur ==
    /\ phase = "ready"
    /\ HasCurrentPage(pages, currentPageId)
    /\ pages' = handleTitleBlur(pages, currentPageId,
                                CurrentPage(pages, currentPageId).title)
    /\ storage' = SaveEffect(pages', storage)
    /\ last' = Op("titleblur", currentPageId)
    /\ UNCHANGED <<currentPageId, isLoading, now, phase, reported, pending>>

\* A change notification of the editing surface (lines 45-48), which is
\* mounted only while there is a current page (lines 367-373), handled by
\* lines 117-130; the save effect runs when the handler has set the pages.
EditorChange(updatedContent) ==
    /\ phase = "ready"
    /\ HasCurrentPage(pages, currentPageId)
    /\ pages' = handleEditorContentChange(pages, currentPageId, isLoading,
                                          updatedContent)
    /\ storage' = IF currentPageId \in {Null, ""} \/ isLoading THEN storage
                  ELSE SaveEffect(pages', storage)
    /\ reported' = [reported EXCEPT ![currentPageId] =
                       [has |-> TRUE, content |-> updatedContent]]
    /\ last' = Op("content", currentPageId)
    /\ UNCHANGED <<currentPageId, isLoading, now, phase, pending>>

\* handlePageSwitch deselecting the page when its own entry is clicked,
\* instead of returning at line 231.
PageSwitch_Toggle(pageId) ==
    /\ phase = "ready"
    /\ \E i \in 1..Len(pages) : pages[i].id = pageId
    /\ IF pageId = currentPageId
       THEN /\ currentPageId' = Null
            /\ UNCHANGED <<pages, storage>>
       ELSE /\ IF SwitchFlushes(currentPageId, isLoading)
               THEN /\ pages' = SwitchedPages(pages, currentPageId)
                    /\ storage' = SaveEffect(pages',
                                             saveToLocalStorage(pages', storage))
               ELSE UNCHANGED <<pages, storage>>
            /\ currentPageId' = pageId
    /\ last' = Op("switch", pageId)
    /\ UNCHANGED <<isLoading, now, phase, reported, pending>>

\* lines 229-258: a click on the sidebar entry of a page of the collection.
PageSwitch(pageId) ==
    /\ phase = "ready"
    /\ \E i \in 1..Len(pages) : pages[i].id = pageId
    /\ IF pageId = currentPageId
       THEN UNCHANGED <<pages, currentPageId, storage>>
       ELSE /\ IF SwitchFlushes(currentPageId, isLoading)
               THEN /\ pages' = SwitchedPages(pages, currentPageId)
                    /\ storage' = SaveEffect(pages',
                                             saveToLocalStorage(pages', storage))
               ELSE UNCHANGED <<pages, storage>>
            /\ currentPageId' = pageId
    /\ last' = Op("switch", pageId)
    /\ UNCHANGED <<isLoading, now, phase, reported, pending>>

\* lines 133-147: the window loses the focus.
WindowBlur ==
    /\ phase = "ready"
    /\ storage' = saveCurrentPage(pages, currentPageId, isLoading, storage)
    /\ last' = Op("blur", Null)
    /\ UNCHANGED <<pages, currentPageId, isLoading, now, phase, reported, pending>>

\* lines 133-147: beforeunload; the document is then unloaded, and the next
\* visit renders the component anew (lines 64-73).
BeforeUnload ==
    /\ phase = "ready"
    /\ storage' = saveCurrentPage(pages, currentPageId, isLoading, storage)
    /\ pages' = <<>>
    /\ currentPageId' = Null
    /\ phase' = "mounted"
    /\ reported' = NoReports
    /\ last' = Op("unload", Null)
    /\ UNCHANGED <<isLoading, now, pending>>

Next ==
    \/ Tick
    \/ LoadEffect
    \/ \E updatedContent \in Contents : EarlyEditorChange(updatedContent)
    \/ LoadRender
    \/ AddNewPage
    \/ \E pageId \in IdSet : DeletePage(pageId)
    \/ \E value \in TitleInputs : TitleChange(value)
    \/ TitleBlur
    \/ \E updatedContent \in Contents : EditorChange(updatedContent)
    \/ \E pageId \in IdSet : PageSwitch(pageId)
    \/ WindowBlur
    \/ BeforeUnload

Spec == Init /\ [][Next]_vars

\* ------------------------------------------------------------ properties
Ready == phase = "ready"

UniqueNonEmptyIds(ps) ==
    /\ \A i \in 1..Len(ps) : ps[i].id \notin {"", Null, Absent}
    /\ \A i, j \in 1..Len(ps) : i # j => ps[i].id # ps[j].id

\* The records of the slot whose id is id.
StoredWithId(slot, id) ==
    { i \in 1..Len(slot.val) : slot.val[i].id = id }

\* C1: after load and any createPage or deletePage applied to a collection
\* whose ids are non-empty and pairwise different, whatever the clock reads,
\* the ids of the collection are again non-empty and pairwise different.
C1_UniqueIds ==
    (Ready /\ last.op \in {"create", "delete"}
           /\ UniqueNonEmptyIds(last.prePages))
        => UniqueNonEmptyIds(pages)

\* The content the editing surface last reported for the page id, or, when it
\* reported none, the content the page had when the last handler started.
LatestContent(id) ==
    IF reported[id].has THEN reported[id].content
    ELSE CurrentPage(last.prePages, id).content

RealSwitch ==
    /\ Ready
    /\ last.op = "switch"
    /\ last.preCur # Null
    /\ last.id # last.preCur

\* C2: when the selection has switched from page A to a different page B, the
\* slot holds, in the state in which B is selected, a collection in which
\* A is present with the content the editor last reported for A.
C2_SwitchPersistsOutgoing ==
    RealSwitch =>
        /\ currentPageId = last.id
        /\ storage.kind = "array"
        /\ StoredWithId(storage, last.preCur) # {}
        /\ \A i \in StoredWithId(storage, last.preCur) :
              storage.val[i].content =
                  [kind |-> "array", items |-> LatestContent(last.preCur)]

C2_Witness ==
    /\ RealSwitch
    /\ reported[last.preCur].has
    /\ reported[last.preCur].content = <<"b">>
    /\ CurrentPage(last.preStorage.val, last.preCur).content.items = <<"b">>
    /\ Len(pages) >= 2

\* C3: after every handler has been processed and the collection is not
\* empty, the slot holds the serialization of the collection: the same
\* pages in the same order with the same id, title and content.
C3_StorageMirrorsPages ==
    (Ready /\ Len(pages) > 0) =>
        /\ storage.kind = "array"
        /\ Len(storage.val) = Len(pages)
        /\ \A i \in 1..Len(pages) :
              /\ storage.val[i].kind = "object"
              /\ storage.val[i].id = pages[i].id
              /\ storage.val[i].title = pages[i].title
              /\ storage.val[i].content =
                     [kind |-> "array", items |-> pages[i].content]

C3_Witness ==
    /\ Ready
    /\ last.op = "content"
    /\ pages # last.prePages
    /\ Len(pages) >= 2
    /\ storage # last.preStorage

\* C4: the program never writes an empty array to the slot; when deletePage
\* has emptied the collection the slot is left as it was, holding the last
\* non-empty collection, which still contains the page deleted last.
C4_NoEmptyWrite ==
    Ready =>
        /\ ~(storage.kind = "array" /\ storage.val = <<>>)
        /\ (last.op = "delete" /\ pages = <<>>) =>
              /\ storage = last.preStorage
              /\ storage = JSONstringify(last.prePages)
              /\ StoredWithId(storage, last.id) # {}

C4_Witness ==
    /\ Ready
    /\ last.op = "delete"
    /\ pages = <<>>
    /\ currentPageId = Null

\* The first page of ps that deletePage(id) leaves in the collection.
FirstRemaining(ps, id) ==
    ps[CHOOSE i \in 1..Len(ps) :
          ps[i].id # id /\ \A j \in 1..(i - 1) : ps[j].id = id]

DeletedSelected ==
    /\ Ready
    /\ last.op = "delete"
    /\ last.id = last.preCur

\* C5: deletePage of the selected page: when it was the only page, no page is
\* selected afterwards; when other pages remain, the selected page is the
\* first of the remaining pages.
C5_DeleteSelected ==
    DeletedSelected =>
        /\ Len(last.prePages) = 1 =>
              (pages = <<>> /\ currentPageId = Null
                            /\ ~HasCurrentPage(pages, currentPageId))
        /\ pages # <<>> =>
              /\ currentPageId = pages[1].id
              /\ CurrentPage(pages, currentPageId) = pages[1]
              /\ pages[1] = FirstRemaining(last.prePages, last.id)

C5_Witness ==
    /\ DeletedSelected
    /\ Len(pages) >= 2
    /\ last.prePages[1].id = last.id
    /\ currentPageId # last.preCur

C5_WitnessOnlyPage ==
    /\ DeletedSelected
    /\ Len(last.prePages) = 1
    /\ currentPageId = Null

Created == Ready /\ last.op = "create"

\* C6: createPage, applied to a collection whose ids are pairwise different,
\* appends exactly one page, titled "Untitled" and with empty content, at the
\* end of the collection, leaves the pages that were there unchanged and in
\* their order, and the page shown as the current page (the first page whose
\* id is the selected id) is the page it appended.
C6_CreateAppendsAndSelects ==
    (Created /\ UniqueNonEmptyIds(last.prePages)) =>
        /\ Len(pages) = Len(last.prePages) + 1
        /\ SubSeq(pages, 1, Len(last.prePages)) = last.prePages
        /\ pages[Len(pages)].title = Untitled
        /\ pages[Len(pages)].content = <<>>
        /\ currentPageId = pages[Len(pages)].id
        /\ HasCurrentPage(pages, currentPageId)
        /\ FindIndex(pages, currentPageId) = Len(pages)

\* The slots of claim C7: missing, the empty string, unparseable, a value
\* that is no array, the empty array.
FallbackSlot(slot) ==
    \/ slot.kind \in {"missing", "empty", "corrupt", "nonarray"}
    \/ slot.kind = "array" /\ slot.val = <<>>

Loaded == Ready /\ last.op = "load"

\* C7: load from a slot that is missing, empty, unparseable, no array or an
\* empty array ends with a collection of exactly one page, titled "Getting
\* Started" and with empty content, and that page is selected.
C7_LoadFallback ==
    (Loaded /\ FallbackSlot(last.preStorage)) =>
        /\ Len(pages) = 1
        /\ pages[1].title = "Getting Started"
        /\ pages[1].content = <<>>
        /\ pages[1].id # ""
        /\ currentPageId = pages[1].id
        /\ CurrentPage(pages, currentPageId) = pages[1]

C7_Witness ==
    /\ Loaded
    /\ last.preStorage.kind = "corrupt"
    /\ Len(pages) = 1
    /\ currentPageId = pages[1].id

\* The fields of a loaded page that claim C8 derives from the persisted
\* record e, read with "present" as "not absent".
ContentAsClaimed(e) == IF e.content.kind = "array" THEN e.content.items ELSE <<>>
TitleAsClaimed(e) == IF e.title \in {Absent, ""} THEN Untitled ELSE e.title

NonEmptyArray(slot) == slot.kind = "array" /\ Len(slot.val) > 0
ArrayOfObjects(slot) ==
    /\ NonEmptyArray(slot)
    /\ \A i \in 1..Len(slot.val) : slot.val[i].kind = "object"

\* C8 as stated: load of a persisted non-empty array yields as many pages in
\* the same order, each with the persisted content if that is an array and
\* [] otherwise, the persisted title if non-empty and "Untitled" otherwise,
\* and the persisted id if an id is present; the first page is selected.
C8_LoadNormalizes_AsStated ==
    (Loaded /\ NonEmptyArray(last.preStorage)) =>
        /\ Len(pages) = Len(last.preStorage.val)
        /\ \A i \in 1..Len(pages) :
              /\ pages[i].content = ContentAsClaimed(last.preStorage.val[i])
              /\ pages[i].title = TitleAsClaimed(last.preStorage.val[i])
              /\ last.preStorage.val[i].id # Absent =>
                    pages[i].id = last.preStorage.val[i].id
        /\ currentPageId = pages[1].id

\* C8 as amended: the same for a non-empty array all of whose elements are
\* objects, the persisted id being kept when it is present and not empty, and
\* replaced by a timestamp-derived id otherwise.
C8_LoadNormalizes ==
    (Loaded /\ ArrayOfObjects(last.preStorage)) =>
        /\ Len(pages) = Len(last.preStorage.val)
        /\ \A i \in 1..Len(pages) :
              /\ pages[i].content = ContentAsClaimed(last.preStorage.val[i])
              /\ pages[i].title = TitleAsClaimed(last.preStorage.val[i])
              /\ IF last.preStorage.val[i].id \in {Absent, ""}
                 THEN \E t \in 1..now : pages[i].id = DateNowToString(t)
                 ELSE pages[i].id = last.preStorage.val[i].id
        /\ currentPageId = pages[1].id

C8_Witness ==
    /\ Loaded
    /\ ArrayOfObjects(last.preStorage)
    /\ Len(pages) = 2
    /\ last.preStorage.val[1].id = ""
    /\ last.preStorage.val[1].content.kind = "other"
    /\ last.preStorage.val[2].id = "1"
    /\ last.preStorage.val[2].title = "Notes"
    /\ pages[1].id = "2"

RetitledEmpty == Ready /\ last.op = "title" /\ last.value = ""

\* C9: after load every page of the collection has a non-empty title;
\* updateTitle(id, "") leaves the pages with that id titled "Untitled" and
\* changes no other field of any page.
C9_TitlesNonEmpty ==
    Ready =>
        /\ \A i \in 1..Len(pages) : pages[i].title \notin {"", Absent}
        /\ RetitledEmpty =>
              /\ Len(pages) = Len(last.prePages)
              /\ \A i \in 1..Len(pages) :
                    IF last.prePages[i].id = last.id
                    THEN pages[i] = [last.prePages[i] EXCEPT !.title = "Untitled"]
                    ELSE pages[i] = last.prePages[i]
              /\ currentPageId = last.preCur

C9_Witness ==
    /\ RetitledEmpty
    /\ Len(pages) >= 2
    /\ \E i \in 1..Len(pages) :
          /\ pages[i].id = last.id
          /\ last.prePages[i].title = "Notes"
          /\ pages[i].title = "Untitled"
          /\ pages[i].content = <<"b">>

DeletedOther ==
    /\ Ready
    /\ last.op = "delete"
    /\ last.id # last.preCur

\* C10: deletePage(id) of a page that is not the selected one removes that
\* one page and nothing else: the other pages keep id, title, content and
\* order, and the selection is unchanged.
C10_DeleteOtherFrame ==
    DeletedOther =>
        /\ currentPageId = last.preCur
        /\ Len(pages) = Len(last.prePages) - 1
        /\ \E k \in 1..Len(last.prePages) :
              /\ last.prePages[k].id = last.id
              /\ pages = SubSeq(last.prePages, 1, k - 1)
                         \o SubSeq(last.prePages, k + 1, Len(last.prePages))

\* deletePage(id) of a page that is not selected does remove one page only
\* when the ids of the collection are pairwise different.
C10_FrameWithUniqueIds ==
    (DeletedOther /\ UniqueNonEmptyIds(last.prePages)) =>
        /\ currentPageId = last.preCur
        /\ Len(pages) = Len(last.prePages) - 1
        /\ \E k \in 1..Len(last.prePages) :
              /\ last.prePages[k].id = last.id
              /\ pages = SubSeq(last.prePages, 1, k - 1)
                         \o SubSeq(last.prePages, k + 1, Len(last.prePages))

\* createPage with an id that no page of the collection has selects the page
\* it appended.
C6_SelectsWithFreshId ==
    (Created /\ \A i \in 1..Len(last.prePages) : last.prePages[i].id # last.id) =>
        /\ pages = Append(last.prePages, Page(last.id, Untitled, <<>>))
        /\ CurrentPage(pages, currentPageId) = pages[Len(pages)]

EmptyArraySlot(slot) == slot.kind = "array" /\ slot.val = <<>>

LoadedFromEmptyArray == Loaded /\ EmptyArraySlot(last.preStorage)

\* C11 as stated: started with the slot holding [], load creates and selects
\* the default page and does not write the slot: once the loaded state is in
\* place and before any further handler has run, the slot still holds [].
C11_DefaultNotPersisted_AsStated ==
    LoadedFromEmptyArray =>
        /\ Len(pages) = 1
        /\ pages[1].title = DefaultTitle
        /\ currentPageId = pages[1].id
        /\ storage = last.preStorage

\* C11 as amended: started with the slot holding [], load creates and
\* selects the default page, and the save effect of the re-render that puts it
\* in place writes it to the slot, no further handler being needed.
C11_DefaultPersistedAtStartup ==
    LoadedFromEmptyArray =>
        /\ Len(pages) = 1
        /\ pages[1].title = DefaultTitle
        /\ pages[1].content = <<>>
        /\ currentPageId = pages[1].id
        /\ storage.kind = "array"
        /\ Len(storage.val) = 1
        /\ storage.val[1].id = pages[1].id
        /\ storage.val[1].title = DefaultTitle

C11_Witness ==
    /\ LoadedFromEmptyArray
    /\ storage # last.preStorage
    /\ Len(storage.val) = 1

\* C12: a change notification delivered between the load effect and the
\* re-render that puts the loaded collection and selection in place changes
\* no page: the collection queued, and then shown, is the one load made of
\* the slot.
C12_EarlyNotificationIgnored ==
    /\ (phase = "loading" /\ last.early) =>
          /\ \E t \in 1..now : pending.pages = LoadedPages(last.preStorage, t)
          /\ pending.cur = pending.pages[1].id
          /\ pages = <<>>
    /\ (Loaded /\ last.early) =>
          /\ \E t \in 1..now : pages = LoadedPages(last.preStorage, t)
          /\ currentPageId = pages[1].id

C12_Witness ==
    /\ Loaded
    /\ last.early
    /\ Len(pages) = 2
    /\ pages[1].content = <<"b">>
    /\ pages[2].content = <<>>

\* C13: a non-empty collection that the program has reached, persisted and
\* then loaded from the slot, comes back equal (ids, titles, contents, order)
\* with its first page selected: for the collection in memory and the slot
\* saveToLocalStorage makes of it, and for the slot that beforeunload left
\* and the collection that was in memory then.
C13_RoundTrip ==
    /\ (Ready /\ pages # <<>>) =>
          LET slot == saveToLocalStorage(pages, Slot("missing", <<>>))
          IN  /\ LoadedPages(slot, now) = pages
              /\ LoadedPages(slot, now)[1].id = pages[1].id
    /\ (phase = "mounted" /\ last.op = "unload" /\ last.prePages # <<>>) =>
          LoadedPages(storage, now) = last.prePages
    /\ (Loaded /\ ArrayOfObjects(last.preStorage)
               /\ last.preStorage = JSONstringify(pages)) =>
          currentPageId = pages[1].id

C13_Witness ==
    /\ Loaded
    /\ last.preStorage = JSONstringify(pages)
    /\ Len(pages) = 3
    /\ pages[1].title = "Getting Started"
    /\ pages[2].title = "Notes"
    /\ pages[2].content = <<"b">>
    /\ pages[3].content = <<>>

SameSwitch ==
    /\ Ready
    /\ last.op = "switch"
    /\ last.id = last.preCur

\* C14: selectPage(id) with the id that is selected already changes nothing:
\* collection, selection and slot are as they were.
C14_SelectSameNoOp ==
    SameSwitch =>
        /\ pages = last.prePages
        /\ currentPageId = last.preCur
        /\ storage = last.preStorage

C14_Witness ==
    /\ SameSwitch
    /\ Len(pages) >= 2
    /\ CurrentPage(pages, currentPageId).content = <<"b">>

ContentNotified == Ready /\ last.op = "content" /\ last.preCur # Null

\* C15: a change notification of the editing surface replaces the content of
\* the current page (the page shown, line 70) and nothing else: the other
\* pages keep their content, and every page keeps its id and title.
C15_ContentChangeFrame ==
    ContentNotified =>
        /\ Len(pages) = Len(last.prePages)
        /\ \A i \in 1..Len(pages) :
              IF i = FindIndex(last.prePages, last.preCur)
              THEN pages[i] = [last.prePages[i] EXCEPT
                                  !.content = reported[last.preCur].content]
              ELSE pages[i] = last.prePages[i]
        /\ currentPageId = last.preCur

\* With pairwise different ids the notification changes the current page only.
C15_FrameWithUniqueIds ==
    (ContentNotified /\ UniqueNonEmptyIds(last.prePages)) =>
        /\ Len(pages) = Len(last.prePages)
        /\ \A i \in 1..Len(pages) :
              IF i = FindIndex(last.prePages, last.preCur)
              THEN pages[i] = [last.prePages[i] EXCEPT
                                  !.content = reported[last.preCur].content]
              ELSE pages[i] = last.prePages[i]
        /\ currentPageId = last.preCur

\* The records of the slot that lack an id (absent or empty, line 91).
LackingId(slot) ==
    { i \in 1..Len(slot.val) : slot.val[i].id \in {Absent, ""} }

\* C16: when load normalizes an array in which several records lack an id,
\* each of them receives a non-empty id that no other record of the loaded
\* collection has.
C16_LoadedIdsDistinct ==
    (Loaded /\ ArrayOfObjects(last.preStorage)
            /\ Cardinality(LackingId(last.preStorage)) >= 2) =>
        \A i \in LackingId(last.preStorage) :
            /\ pages[i].id \notin {"", Absent, Null}
            /\ \A j \in 1..Len(pages) : j # i => pages[j].id # pages[i].id

\* C17: once load has completed, the selected id is none or the id of a page
\* of the collection, and it is none exactly when the collection is empty.
C17_SelectionConsistent ==
    Ready =>
        /\ currentPageId = Null \/ HasCurrentPage(pages, currentPageId)
        /\ currentPageId = Null <=> pages = <<>>

C17_Witness ==
    /\ Ready
    /\ last.op = "delete"
    /\ last.id = last.preCur
    /\ Len(last.prePages) = 3
    /\ last.prePages[1].id = last.id
    /\ Len(pages) = 2
    /\ currentPageId = pages[1].id

C17_WitnessEmpty ==
    /\ Ready
    /\ pages = <<>>
    /\ currentPageId = Null
    /\ last.op = "delete"

\* C18: the isLoading ref is false in every reachable state, so the guards of
\* lines 119, 135 and 234 suppress the content update, the blur or unload
\* save and the flush of a switch exactly when no page is selected.
C18_IsLoadingNeverSet ==
    /\ isLoading = FALSE
    /\ SwitchFlushes(currentPageId, isLoading) <=> currentPageId # Null
    /\ \A c \in Contents :
          currentPageId # Null =>
              handleEditorContentChange(pages, currentPageId, isLoading, c)
                  = SetContent(pages, currentPageId, c)
    /\ currentPageId # Null =>
          saveCurrentPage(pages, currentPageId, isLoading, storage)
              = saveToLocalStorage(pages, storage)
    /\ (Ready /\ last.op = "content" /\ last.preCur # Null) =>
          \A i \in 1..Len(pages) :
              pages[i].id = last.preCur =>
                  pages[i].content = reported[last.preCur].content

C18_Witness ==
    /\ Ready
    /\ ~isLoading
    /\ last.op = "content"
    /\ last.preCur # Null
    /\ pages # last.prePages
    /\ CurrentPage(pages, currentPageId).content = <<"b">>
====
